---- MODULE Spec2Model ----
(***************************************************************************)
(* MARVIN backend (src/backend/main.py and src/backend/api/*.py).          *)
(*                                                                         *)
(* Text (str) is a sequence of one-character strings, bytes a sequence of  *)
(* integers.  Five specifications share the module:                       *)
(*   Spec          the HTTP endpoints, one request after another           *)
(*   SpecPaths     create / upload / analyze over every short filename     *)
(*   SpecWrite     requests stepping through safe_write_file concurrently  *)
(*   SpecAnalyze   analyze_python applied to one source                    *)
(*   SpecOptimize  naive_optimize_python applied to one text               *)
(***************************************************************************)
EXTENDS Integers, Sequences, FiniteSets, TLC

VARIABLES
    fs,        \* the files on disk: resolved path -> bytes
    log,       \* the requests answered so far, each with its response
    arg,       \* argument of the pure function under SpecAnalyze / SpecOptimize
    ret,       \* its result
    dentries,  \* SpecWrite: directory entries, file name -> inode
    inodes,    \* SpecWrite: inode -> bytes
    procs,     \* SpecWrite: the requests in flight
    pc         \* which specification runs; "call" / "done" around a pure function

vars == <<fs, log, arg, ret, dentries, inodes, procs, pc>>

None == "None"

Idle ==
    /\ fs = <<>> /\ log = <<>>
    /\ dentries = <<>> /\ inodes = <<>> /\ procs = <<>>

\* ------------------------------------------------------------------ bounds
MaxLen == 4      \* characters of a text given to optimize
MaxLines == 2    \* lines of a source given to analyze_python
MaxNameLen == 3  \* characters of a filename
MaxCodeLen == 1  \* characters of the code or content of a request
MaxRequests == 2 \* requests of a behaviour of Spec
MaxPathRequests == 1  \* requests of a behaviour of SpecPaths
NumWriters == 2  \* requests in flight under SpecWrite

\* ------------------------------------------------------------- characters
NL == "\n"
CR == "\r"
SP == " "
DQ == "\""
SQ == "'"

TextChars == {"a", SP, NL, CR, DQ, SQ}

SeqsUpTo(S, n) == UNION {[1..k -> S] : k \in 0..n}

Texts == SeqsUpTo(TextChars, MaxLen)

\* ------------------------------------------------------------ str helpers
IsLineBreak(c) == c \in {NL, CR}

\* str.strip() / rstrip() remove these (the line breaks never occur inside a line)
IsSpace(c) == c \in {SP, NL, CR}

RECURSIVE SplitFrom(_, _, _)
\* s: text, i: next index, cur: the line being collected
SplitFrom(s, i, cur) ==
    IF i > Len(s) THEN (IF cur = <<>> THEN <<>> ELSE <<cur>>)
    ELSE IF s[i] = CR /\ i < Len(s) /\ s[i + 1] = NL
         THEN <<cur>> \o SplitFrom(s, i + 2, <<>>)
    ELSE IF IsLineBreak(s[i])
         THEN <<cur>> \o SplitFrom(s, i + 1, <<>>)
    ELSE SplitFrom(s, i + 1, Append(cur, s[i]))

\* str.splitlines(): breaks at \n, \r and \r\n; no empty last line
SplitLines(s) == SplitFrom(s, 1, <<>>)

RECURSIVE RStrip(_)
RStrip(line) ==
    IF line = <<>> THEN <<>>
    ELSE IF IsSpace(line[Len(line)]) THEN RStrip(SubSeq(line, 1, Len(line) - 1))
    ELSE line

\* l.strip() is empty
IsBlank(line) == RStrip(line) = <<>>

RECURSIVE JoinWith(_, _)
JoinWith(sep, lines) ==
    IF lines = <<>> THEN <<>>
    ELSE IF Len(lines) = 1 THEN lines[1]
    ELSE lines[1] \o sep \o JoinWith(sep, Tail(lines))

JoinDoubled(lines) == JoinWith(<<NL, NL>>, lines)

\* "\n".join(lines)
JoinLines(lines) == JoinWith(<<NL>>, lines)

\* sub in s
Contains(s, sub) ==
    \E i \in 1..(Len(s) - Len(sub) + 1) : SubSeq(s, i, i + Len(sub) - 1) = sub

EndsWith(s, suf) ==
    Len(s) >= Len(suf) /\ SubSeq(s, Len(s) - Len(suf) + 1, Len(s)) = suf

\* s.replace(a, b) for single characters
ReplaceChar(s, a, b) == [i \in 1..Len(s) |-> IF s[i] = a THEN b ELSE s[i]]

\* --------------------------------------------------- naive_optimize_python
StripTrailing(code) ==
    JoinLines([i \in 1..Len(SplitLines(code)) |-> RStrip(SplitLines(code)[i])])

QuotesSafe(optimized) ==
    /\ Contains(optimized, <<DQ>>)
    /\ ~Contains(optimized, <<SQ, SQ, SQ>>)
    /\ ~Contains(optimized, <<DQ, DQ, DQ>>)

\* round((1 - len(optimized) / len(code), 4)[1] * 100 if len(code) else 0, 2):
\* the subscripted operand is the pair (ratio, 4), whose item [1] is 4
\* (Python counts from 0); the ratio, in ten-thousandths, is item [0].
ReductionPercent(code, optimized) ==
    IF Len(code) # 0
    THEN LET pair == <<10000 - (Len(optimized) * 10000) \div Len(code), 4>>
         IN  pair[2] * 100
    ELSE 0

naive_optimize_python(code) ==
    LET stripped == StripTrailing(code)
        changes1 == IF stripped # code THEN <<"Removed trailing whitespace">> ELSE <<>>
        maybe    == ReplaceChar(stripped, DQ, SQ)
        requote  == QuotesSafe(stripped) /\ maybe # stripped
        optimized == IF requote THEN maybe ELSE stripped
        changes  == IF requote
                    THEN Append(changes1, "Normalized quotes to single quotes")
                    ELSE changes1
    IN  [optimized_code |-> optimized,
         report |-> [improvements_made |-> Len(changes),
                     changes |-> changes,
                     before_size |-> Len(code),
                     after_size |-> Len(optimized),
                     reduction_percent |-> ReductionPercent(code, optimized)]]

\* ------------------------------------------------------------- ALLOWED_EXTS
\* extension -> language label, as <<extension, label>>
ALLOWED_EXTS ==
    { << <<"p","y">>, <<"p","y","t","h","o","n">> >>,
      << <<"j","s">>, <<"j","a","v","a","s","c","r","i","p","t">> >>,
      << <<"t","s">>, <<"t","y","p","e","s","c","r","i","p","t">> >>,
      << <<"t","s","x">>, <<"t","s","x">> >>,
      << <<"j","s","x">>, <<"j","s","x">> >>,
      << <<"c","p","p">>, <<"c","+","+">> >>,
      << <<"c">>, <<"c">> >>,
      << <<"j","a","v","a">>, <<"j","a","v","a">> >>,
      << <<"h","t","m","l">>, <<"h","t","m","l">> >>,
      << <<"c","s","s">>, <<"c","s","s">> >>,
      << <<"j","s","o","n">>, <<"j","s","o","n">> >>,
      << <<"m","d">>, <<"m","a","r","k","d","o","w","n">> >>}

AllowedExtNames == {e[1] : e \in ALLOWED_EXTS}

\* any(v.endswith(f".{ext}") for ext in ALLOWED_EXTS)
HasAllowedExt(v) == \E ext \in AllowedExtNames : EndsWith(v, <<".">> \o ext)

\* the index of the last occurrence of c in s, 0 when there is none (rfind + 1)
LastIndexOf(s, c) ==
    IF \E i \in 1..Len(s) : s[i] = c
    THEN CHOOSE i \in 1..Len(s) : s[i] = c /\ \A j \in (i + 1)..Len(s) : s[j] # c
    ELSE 0

AfterLast(s, c) == SubSeq(s, LastIndexOf(s, c) + 1, Len(s))

LowerChar(c) ==
    CASE c = "P" -> "p" [] c = "Y" -> "y" [] c = "C" -> "c" [] OTHER -> c

\* str.lower()
Lower(s) == [i \in 1..Len(s) |-> LowerChar(s[i])]

PLAIN == <<"p","l","a","i","n">>

PYTHON == <<"p","y","t","h","o","n">>

PY == <<"p","y">>

detect_language_from_name(name) ==
    LET ext == IF Contains(name, <<".">>) THEN Lower(AfterLast(name, ".")) ELSE <<>> IN
    IF ext \in AllowedExtNames
    THEN (CHOOSE e \in ALLOWED_EXTS : e[1] = ext)[2]
    ELSE IF ext # <<>> THEN ext ELSE PLAIN

\* ------------------------------------------------------------------- bytes
LowerCase ==
    <<"a","b","c","d","e","f","g","h","i","j","k","l","m",
      "n","o","p","q","r","s","t","u","v","w","x","y","z">>

\* ord(c) for the characters the model uses
Ord(c) ==
    IF \E i \in 1..Len(LowerCase) : LowerCase[i] = c
    THEN 96 + (CHOOSE i \in 1..Len(LowerCase) : LowerCase[i] = c)
    ELSE CASE c = "." -> 46 [] c = "/" -> 47 [] c = "+" -> 43 [] c = "_" -> 95
           [] c = NL -> 10 [] c = CR -> 13 [] c = SP -> 32 [] c = DQ -> 34 [] c = SQ -> 39

\* str.encode("utf-8"): one byte for each of these characters
Utf8(s) == [i \in 1..Len(s) |-> Ord(s[i])]

HexDigits == <<"0","1","2","3","4","5","6","7","8","9","a","b","c","d","e","f">>

RECURSIVE HexOf(_, _)
\* n in hexadecimal, `width` digits
HexOf(n, width) ==
    IF width = 0 THEN <<>>
    ELSE Append(HexOf(n \div 16, width - 1), HexDigits[(n % 16) + 1])

RECURSIVE HashNum(_)
\* stands for SHA-256: a number computed from the bytes, different for the
\* different contents the model uses
HashNum(b) == IF b = <<>> THEN 7 ELSE (HashNum(Tail(b)) * 131 + b[1]) % 65536

DigestLen == 12

\* sha256_bytes(b)[:12]
Sha256Prefix(b) == HexOf(HashNum(b), DigestLen)

\* ------------------------------------------------------------------- paths
\* A path is the sequence of its components below the root.
BASE_STORAGE ==
    << <<"t","m","p">>, <<"m","a","r","v","i","n","_","s","t","o","r","a","g","e">> >>

FILES_DIR == Append(BASE_STORAGE, <<"f","i","l","e","s">>)

ANALYSIS_DIR == Append(BASE_STORAGE, <<"a","n","a","l","y","s","i","s">>)

RECURSIVE SplitOn(_, _)
\* s.split(c)
SplitOn(s, c) ==
    IF ~Contains(s, <<c>>) THEN <<s>>
    ELSE LET i == CHOOSE k \in 1..Len(s) : s[k] = c /\ \A j \in 1..(k - 1) : s[j] # c
         IN  <<SubSeq(s, 1, i - 1)>> \o SplitOn(SubSeq(s, i + 1, Len(s)), c)

\* the components pathlib keeps of a string: empty ones and "." are dropped
PathParts(s) == SelectSeq(SplitOn(s, "/"), LAMBDA part : part # <<>> /\ part # <<".">>)

\* dir / name: an absolute name replaces dir
PathJoin(dir, name) ==
    IF name # <<>> /\ name[1] = "/" THEN PathParts(name) ELSE dir \o PathParts(name)

RECURSIVE Resolve(_)
\* what the operating system opens: ".." steps to the parent
Resolve(parts) ==
    IF parts = <<>> THEN <<>>
    ELSE LET init == Resolve(SubSeq(parts, 1, Len(parts) - 1))
             last == parts[Len(parts)]
         IN  IF last = <<".", ".">>
             THEN (IF init = <<>> THEN <<>> ELSE SubSeq(init, 1, Len(init) - 1))
             ELSE Append(init, last)

\* PurePath(name).name
PathName(s) == IF PathParts(s) = <<>> THEN <<>> ELSE PathParts(s)[Len(PathParts(s))]

\* PurePath.suffix of a final component
SuffixOf(name) ==
    LET i == LastIndexOf(name, ".") IN
    IF 1 < i /\ i < Len(name) THEN SubSeq(name, i, Len(name)) ELSE <<>>

\* PurePath.stem of a final component
StemOf(name) ==
    LET i == LastIndexOf(name, ".") IN
    IF 1 < i /\ i < Len(name) THEN SubSeq(name, 1, i - 1) ELSE name

RECURSIVE LStripDots(_)
\* s.lstrip('.')
LStripDots(s) == IF s # <<>> /\ s[1] = "." THEN LStripDots(Tail(s)) ELSE s

TMP_SUFFIX == <<".","t","m","p">>

\* path.with_suffix(path.suffix + ".tmp")
TmpPath(path) ==
    Append(SubSeq(path, 1, Len(path) - 1), path[Len(path)] \o TMP_SUFFIX)

IsDirectChild(dir, path) ==
    /\ Len(path) = Len(dir) + 1
    /\ SubSeq(path, 1, Len(dir)) = dir

\* ---------------------------------------------------------- analyze_python
(***************************************************************************)
(* analyze_python reads its text through code.splitlines() (each line's    *)
(* length and blankness) and through ast.parse(code).  A source is given   *)
(* as those two views: `lines`, and `parsed`, the outcome of ast.parse:    *)
(* a SyntaxError with its lineno (absent for some errors, <<>>), or the    *)
(* tree as the sequence of its statement nodes in source order, each with  *)
(* its nesting depth below Module (0: a module-level statement).           *)
(***************************************************************************)
LongLine == 120

LineInfo(code) ==
    [i \in 1..Len(SplitLines(code)) |->
        [len |-> Len(SplitLines(code)[i]), blank |-> IsBlank(SplitLines(code)[i])]]

RECURSIVE SumLen(_)
SumLen(lines) == IF lines = <<>> THEN 0 ELSE lines[1].len + SumLen(Tail(lines))

RECURSIVE SelectIdx(_, _, _)
\* the numbers from i to n that are in S, in order
SelectIdx(i, n, S) ==
    IF i > n THEN <<>>
    ELSE (IF i \in S THEN <<i>> ELSE <<>>) \o SelectIdx(i + 1, n, S)

\* the numbers of the lines with l.strip() not empty
CodeLinesOf(lines) ==
    SelectIdx(1, Len(lines), {i \in 1..Len(lines) : ~lines[i].blank})

LineMetrics(lines) ==
    LET non_empty == CodeLinesOf(lines) IN
    [total_lines |-> Len(lines),
     code_lines |-> Len(non_empty),
     blank_lines |-> Len(lines) - Len(non_empty),
     \* sum / len as the pair <<numerator, denominator>>, 0 for no lines
     avg_line_length |-> IF lines # <<>> THEN <<SumLen(lines), Len(lines)>> ELSE <<0, 1>>]

MaxDepthOf(nodes) ==
    IF nodes = <<>> THEN 0
    ELSE CHOOSE d \in {nodes[i].depth : i \in 1..Len(nodes)} :
             \A i \in 1..Len(nodes) : nodes[i].depth <= d

\* ast.walk(tree) below Module: breadth first, i.e. by depth and, within a
\* depth, in source order
AstWalk(nodes) ==
    LET RECURSIVE Level(_)
        Level(d) ==
            IF d > MaxDepthOf(nodes) THEN <<>>
            ELSE SelectSeq(nodes, LAMBDA n : n.depth = d) \o Level(d + 1)
    IN  Level(0)

\* [n for n in ast.walk(tree) if isinstance(n, ast.FunctionDef)]
FuncDefs(nodes) == SelectSeq(AstWalk(nodes), LAMBDA n : n.kind = "FunctionDef")

ClassDefs(nodes) == SelectSeq(AstWalk(nodes), LAMBDA n : n.kind = "ClassDef")

NoLineno == <<>>

DocstringIssues(nodes) ==
    LET missing == SelectSeq(FuncDefs(nodes), LAMBDA f : ~f.doc) IN
    [i \in 1..Len(missing) |->
        [type |-> "style", message |-> "missing docstring",
         lineno |-> <<missing[i].lineno>>, lines |-> <<>>, severity |-> "low"]]

ComplexityKinds == {"If", "For", "While", "And", "Or", "Try", "With", "BoolOp"}

Complexity(nodes) ==
    1 + Len(SelectSeq(AstWalk(nodes), LAMBDA n : n.kind \in ComplexityKinds))

SyntaxIssue(parsed) ==
    [type |-> "syntax", message |-> "SyntaxError",
     lineno |-> parsed.lineno, lines |-> <<>>, severity |-> "high"]

\* [i + 1 for i, l in enumerate(lines) if len(l) > 120]
LongLines(lines) ==
    SelectIdx(1, Len(lines), {i \in 1..Len(lines) : lines[i].len > LongLine})

LongLineIssues(lines) ==
    IF LongLines(lines) # <<>>
    THEN << [type |-> "style", message |-> "long lines",
             lineno |-> NoLineno, lines |-> LongLines(lines), severity |-> "low"] >>
    ELSE <<>>

Max(a, b) == IF a >= b THEN a ELSE b

analyze_python(lines, parsed) ==
    LET structural ==
            IF parsed.ok
            THEN [functions |-> Len(FuncDefs(parsed.nodes)),
                  classes |-> Len(ClassDefs(parsed.nodes)),
                  estimated_cyclomatic_complexity |-> Complexity(parsed.nodes)]
            ELSE <<>>
        metrics == LineMetrics(lines) @@ structural
        parseIssues ==
            IF parsed.ok THEN DocstringIssues(parsed.nodes) ELSE <<SyntaxIssue(parsed)>>
        issues == parseIssues \o LongLineIssues(lines)
        complexity ==
            IF "estimated_cyclomatic_complexity" \in DOMAIN metrics
            THEN metrics.estimated_cyclomatic_complexity ELSE 0
    IN  [language |-> PYTHON,
         quality_score |-> Max(0, 100 - Len(issues) * 3 - Max(0, complexity - 10)),
         issues |-> issues,
         metrics |-> metrics]

\* ------------------------------------------------------------ HTTP layer
\* A JSON or form field: not sent, null, or a string.
Absent == [tag |-> "absent", s |-> <<>>]

Null == [tag |-> "null", s |-> <<>>]

Str(s) == [tag |-> "str", s |-> s]

\* a field with a default: the default when the field is not sent
Defaulted(field, default) == IF field.tag = "absent" THEN default ELSE field

\* Python's `field or alt` for an Optional[str]
OrElse(field, alt) == IF field.tag = "str" /\ field.s # <<>> THEN field.s ELSE alt

Success(data) == [status_code |-> 200, status |-> "success", data |-> data]

HttpError(code, detail) == [status_code |-> code, status |-> "error", data |-> [detail |-> detail]]

\* the framework's answer to a body that fails validation
Unprocessable == HttpError(422, "validation error")

ValidateFilenameDotsOnly(v) ==
    IF Contains(v, <<".", ".">>) THEN "Invalid filename"
    ELSE IF ~HasAllowedExt(v) THEN "Unsupported file extension"
    ELSE "ok"

\* CreateFileRequest.validate_filename: "ok" or the ValueError's message
validate_filename(v) ==
    IF Contains(v, <<"/">>) \/ Contains(v, <<".", ".">>) THEN "Invalid filename"
    ELSE IF ~HasAllowedExt(v) THEN "Unsupported file extension"
    ELSE "ok"

\* safe_write_file run to its end with nothing else touching the directory:
\* the temporary file is created, filled and renamed over the target
\* (st_mtime is not modelled)
safe_write_file(files, path, content) ==
    LET target == Resolve(path)
        kept   == DOMAIN files \ {target, Resolve(TmpPath(path))}
    IN  [files |-> [q \in kept \cup {target} |-> IF q = target THEN content ELSE files[q]],
         wrote |-> <<target>>,
         info  |-> [path |-> path, size |-> Len(content), sha256 |-> HashNum(content)]]

Unwritten(files, resp) == [files |-> files, wrote |-> <<>>, resp |-> resp]

\* POST /create
create_file(files, body) ==
    IF body.filename.tag # "str" \/ body.content.tag # "str" THEN Unwritten(files, Unprocessable)
    ELSE IF validate_filename(body.filename.s) # "ok" THEN Unwritten(files, Unprocessable)
    ELSE
        LET language == OrElse(body.language, detect_language_from_name(body.filename.s))
            rel_path == body.filename.s
            w == safe_write_file(files, PathJoin(FILES_DIR, rel_path), Utf8(body.content.s))
        IN  [files |-> w.files, wrote |-> w.wrote,
             resp |-> Success([filename |-> rel_path, language |-> language, info |-> w.info])]

\* POST /upload; body.filename is Absent when the request carries no file
upload_file(files, body) ==
    IF body.filename.tag # "str" THEN Unwritten(files, Unprocessable)
    ELSE IF body.filename.s = <<>> \/ ~HasAllowedExt(body.filename.s)
    THEN Unwritten(files, HttpError(400, "Unsupported or missing file extension"))
    ELSE
        LET filename  == body.filename.s
            language  == detect_language_from_name(filename)
            digest    == Sha256Prefix(body.content)
            safe_name == StemOf(PathName(filename)) \o <<".">> \o digest \o <<".">>
                             \o LStripDots(SuffixOf(PathName(filename)))
            w == safe_write_file(files, PathJoin(FILES_DIR, safe_name), body.content)
        IN  [files |-> w.files, wrote |-> w.wrote,
             resp |-> Success([original_filename |-> filename, stored_filename |-> safe_name,
                               language |-> language, info |-> w.info])]

UNTITLED == <<"u","n","t","i","t","l","e","d">>

SNIPPET == <<"s","n","i","p","p","e","t">>

ANALYSIS_JSON == <<".","a","n","a","l","y","s","i","s",".","j","s","o","n">>

\* (request.language or detect_language_from_name(request.filename or "")).lower()
RequestLanguage(body) ==
    Lower(OrElse(body.language,
                 detect_language_from_name(OrElse(Defaulted(body.filename, Str(UNTITLED)), <<>>))))

IsPython(language) == language \in {PYTHON, PY, <<>>}

\* ast.parse on the texts a request of the model carries (letters and line
\* breaks): they all parse, to one expression statement per non-blank line
AstParse(code) ==
    LET at == CodeLinesOf(LineInfo(code)) IN
    [ok |-> TRUE, lineno |-> NoLineno,
     nodes |-> [i \in 1..Len(at) |->
                   [kind |-> "Expr", doc |-> FALSE, bare |-> FALSE, depth |-> 0, lineno |-> at[i]]]]

GenericAnalysis(language, code) ==
    LET m == LineMetrics(LineInfo(code)) IN
    [language |-> IF language # <<>> THEN language ELSE PLAIN,
     quality_score |-> IF Len(code) > 0 THEN 80 ELSE 0,
     issues |-> <<>>,
     metrics |-> [total_lines |-> m.total_lines, code_lines |-> m.code_lines,
                  blank_lines |-> m.blank_lines]]

Analysis(language, code) ==
    IF IsPython(language) THEN analyze_python(LineInfo(code), AstParse(code))
    ELSE GenericAnalysis(language, code)

\* json.dumps(analysis, indent=2).encode("utf-8"), as the numbers and the
\* language label the report holds
JsonBytes(analysis) ==
    <<analysis.quality_score, analysis.metrics.total_lines, analysis.metrics.code_lines,
      analysis.metrics.blank_lines, Len(analysis.issues)>> \o Utf8(analysis.language)

\* POST /analyze
analyze_code(files, body) ==
    IF body.code.tag # "str" THEN Unwritten(files, Unprocessable)
    ELSE
        LET filename == Defaulted(body.filename, Str(UNTITLED))
            language == RequestLanguage(body)
            code     == body.code.s
            analysis == Analysis(language, code)
            out_name == ReplaceChar(OrElse(filename, SNIPPET), "/", "_") \o ANALYSIS_JSON
            w == safe_write_file(files, PathJoin(ANALYSIS_DIR, out_name), JsonBytes(analysis))
        IN  [files |-> w.files, wrote |-> w.wrote,
             resp |-> Success([filename |-> filename, language |-> analysis.language,
                               analysis |-> analysis])]

NoOpReport(code) ==
    [optimized_code |-> code,
     report |-> [improvements_made |-> 0, changes |-> <<>>, before_size |-> Len(code),
                 after_size |-> Len(code), reduction_percent |-> 0]]

Optimized(language, code) ==
    IF IsPython(language) THEN naive_optimize_python(code) ELSE NoOpReport(code)

\* POST /optimize
optimize_code(files, body) ==
    IF body.code.tag # "str" THEN Unwritten(files, Unprocessable)
    ELSE
        LET language == RequestLanguage(body)
            result   == Optimized(language, body.code.s)
        IN  Unwritten(files,
                Success([filename |-> Defaulted(body.filename, Str(UNTITLED)),
                         language |-> IF language # <<>> THEN language ELSE PLAIN,
                         result |-> result]))

\* the demo routers of src/backend/api
api_create_file(files, body) ==
    IF body.filename.tag # "str" \/ body.content.tag = "null" THEN Unwritten(files, Unprocessable)
    ELSE IF body.filename.s = <<>> THEN Unwritten(files, HttpError(400, "filename is required"))
    ELSE Unwritten(files, Success([filename |-> body.filename.s,
                                   bytes |-> Len(Defaulted(body.content, Str(<<>>)).s)]))

api_upload_file(files, body) ==
    IF body.filename.tag # "str" THEN Unwritten(files, Unprocessable)
    ELSE IF body.filename.s = <<>> THEN Unwritten(files, HttpError(400, "file is required"))
    ELSE Unwritten(files, Success([filename |-> body.filename.s, size |-> Len(body.content)]))

CountChar(s, c) == Len(SelectSeq(s, LAMBDA x : x = c))

api_analyze_code(files, body) ==
    IF body.code.tag # "str" THEN Unwritten(files, Unprocessable)
    ELSE IF body.code.s = <<>> THEN Unwritten(files, HttpError(400, "code is required"))
    ELSE Unwritten(files, Success([language |-> Defaulted(body.language, Str(PYTHON)),
                                   lines |-> CountChar(body.code.s, NL) + 1]))

api_optimize_code(files, body) ==
    IF body.code.tag # "str" THEN Unwritten(files, Unprocessable)
    ELSE IF body.code.s = <<>> THEN Unwritten(files, HttpError(400, "code is required"))
    ELSE Unwritten(files, Success([language |-> Defaulted(body.language, Str(PYTHON)),
                                   optimized |-> TRUE]))

\* -------------------------------------------------------------------- Spec
NameChars == {".", "/", "c"}

Names == SeqsUpTo(NameChars, MaxNameLen)

\* the names that are empty or pass the extension check
FewNames == {n \in Names : n = <<>> \/ HasAllowedExt(n)}

Codes == SeqsUpTo({"a", NL}, MaxCodeLen)

Languages == {Absent, Str(<<"P", "Y">>), Str(<<"c">>)}

\* the identifiers earlier uploads returned
StoredNames ==
    {log[i].resp.data.stored_filename :
        i \in {j \in 1..Len(log) : log[j].req.endpoint = "upload" /\ log[j].req.impl = "main"
                                   /\ log[j].resp.status_code = 200}}

\* requests a behaviour may hold: Spec's, or SpecPaths'
Budget == IF pc = "paths" THEN MaxPathRequests ELSE MaxRequests

Answer(endpoint, impl, body, r) ==
    /\ Len(log) < Budget
    /\ fs' = r.files
    /\ log' = Append(log, [req |-> [endpoint |-> endpoint, impl |-> impl, body |-> body],
                           resp |-> r.resp, wrote |-> r.wrote])
    /\ UNCHANGED <<arg, ret, dentries, inodes, procs, pc>>

PostCreate(body) == Answer("create", "main", body, create_file(fs, body))

PostUpload(body) == Answer("upload", "main", body, upload_file(fs, body))

PostAnalyze(body) == Answer("analyze", "main", body, analyze_code(fs, body))

PostOptimize(body) == Answer("optimize", "main", body, optimize_code(fs, body))

ApiPostCreate(body) == Answer("create", "api", body, api_create_file(fs, body))

ApiPostUpload(body) == Answer("upload", "api", body, api_upload_file(fs, body))

ApiPostAnalyze(body) == Answer("analyze", "api", body, api_analyze_code(fs, body))

ApiPostOptimize(body) == Answer("optimize", "api", body, api_optimize_code(fs, body))

Init ==
    /\ fs = <<>> /\ log = <<>>
    /\ arg = None /\ ret = None /\ pc = "http"
    /\ dentries = <<>> /\ inodes = <<>> /\ procs = <<>>

CreateBodies ==
    [filename : {Absent} \cup {Str(n) : n \in FewNames},
     content : {Absent} \cup {Str(c) : c \in Codes},
     language : Languages]

UploadBodies ==
    {[filename |-> Absent, content |-> <<>>]}
    \cup [filename : {Str(n) : n \in FewNames}, content : {Utf8(c) : c \in Codes}]

CodeBodies ==
    [code : {Absent} \cup {Str(c) : c \in Codes},
     language : Languages,
     filename : {Absent, Null} \cup {Str(n) : n \in FewNames \cup StoredNames}]

ApiCodeBodies ==
    [code : {Absent} \cup {Str(c) : c \in Codes}, language : {Absent, Str(<<"c">>)}]

ApiCreateBodies ==
    [filename : {Absent} \cup {Str(n) : n \in FewNames},
     content : {Absent} \cup {Str(c) : c \in Codes}]

Next ==
    \/ \E body \in CreateBodies : PostCreate(body)
    \/ \E body \in UploadBodies : PostUpload(body)
    \/ \E body \in CodeBodies : PostAnalyze(body)
    \/ \E body \in CodeBodies : PostOptimize(body)
    \/ \E body \in ApiCreateBodies : ApiPostCreate(body)
    \/ \E body \in UploadBodies : ApiPostUpload(body)
    \/ \E body \in ApiCodeBodies : ApiPostAnalyze(body)
    \/ \E body \in ApiCodeBodies : ApiPostOptimize(body)

Spec == Init /\ [][Next]_vars

\* the field a request must carry: filename (create), the file (upload),
\* code (analyze, optimize)
RequiredField(r) ==
    IF r.endpoint \in {"create", "upload"} THEN r.body.filename ELSE r.body.code

EmptyOrMissing(field) == field.tag # "str" \/ field.s = <<>>

\* C1: a request whose required field is empty or missing ends in a
\* validation error (4xx), never in a success and never in a 500.
C1_EmptyRequiredFieldRejected ==
    \A i \in 1..Len(log) :
        EmptyOrMissing(RequiredField(log[i].req)) => log[i].resp.status_code \in 400..499

IsUploadOf(e) == e.req.endpoint = "upload" /\ e.req.impl = "main" /\ e.resp.status_code = 200

\* analyze called with the identifier an upload returned, and no code of its own
IsAnalyzeOfStored(e, up) ==
    /\ e.req.endpoint = "analyze" /\ e.req.impl = "main"
    /\ e.req.body.filename = Str(up.resp.data.stored_filename)
    /\ EmptyOrMissing(e.req.body.code)

\* C2: upload, then analyze of the identifier upload returned, gives the
\* report that analyze gives for the file's raw content.
C2_UploadAnalyzeRoundTrip ==
    \A i \in 1..(Len(log) - 1) :
        (IsUploadOf(log[i]) /\ IsAnalyzeOfStored(log[i + 1], log[i])) =>
            \E c \in Codes :
                /\ Utf8(c) = log[i].req.body.content
                /\ log[i + 1].resp.status_code = 200
                /\ log[i + 1].resp.data.analysis
                       = Analysis(RequestLanguage(log[i + 1].req.body), c)

\* --------------------------------------------------------------- SpecPaths
PathContents == {<<>>, <<"a">>}

\* filenames with a directory component before an allowed name
DeepNames == {<<"c", "/", "c", ".", "c">>, <<".", ".", "/", "c", ".", "c">>}

PathNames == Names \cup DeepNames

InitPaths ==
    /\ fs = <<>> /\ log = <<>>
    /\ arg = None /\ ret = None /\ pc = "paths"
    /\ dentries = <<>> /\ inodes = <<>> /\ procs = <<>>

NextPaths ==
    \/ \E n \in PathNames, c \in PathContents :
           PostCreate([filename |-> Str(n), content |-> Str(c), language |-> Absent])
    \/ \E n \in PathNames, c \in PathContents :
           PostUpload([filename |-> Str(n), content |-> Utf8(c)])
    \/ \E n \in PathNames :
           PostAnalyze([code |-> Str(<<"a">>), language |-> Absent, filename |-> Str(n)])

SpecPaths == InitPaths /\ [][NextPaths]_vars

StorageDirOf(endpoint) == IF endpoint = "analyze" THEN ANALYSIS_DIR ELSE FILES_DIR

IsHex(s) == \A i \in 1..Len(s) : \E k \in 1..Len(HexDigits) : HexDigits[k] = s[i]

\* stem "." twelve hexadecimal digits "." extension
IsStoredNameOf(stored, filename) ==
    LET stem == StemOf(PathName(filename))
        ext  == LStripDots(SuffixOf(PathName(filename)))
    IN  /\ Len(stored) = Len(stem) + 1 + DigestLen + 1 + Len(ext)
        /\ SubSeq(stored, 1, Len(stem)) = stem
        /\ IsHex(SubSeq(stored, Len(stem) + 2, Len(stem) + 1 + DigestLen))
        /\ SubSeq(stored, Len(stored) - Len(ext) + 1, Len(stored)) = ext
        /\ ~Contains(stored, <<"/">>)

\* C9: whatever the filenames, every file written is a direct child of the
\* files directory (create, upload) or of the analysis directory (analyze);
\* create rejects a filename with '/' or '..', upload stores under
\* stem.digest.extension, analyze writes one name with every '/' replaced.
C9_PathConfinement ==
    /\ \A path \in DOMAIN fs :
           IsDirectChild(FILES_DIR, path) \/ IsDirectChild(ANALYSIS_DIR, path)
    /\ \A i \in 1..Len(log) :
           LET e == log[i] IN
           /\ \A k \in 1..Len(e.wrote) :
                  IsDirectChild(StorageDirOf(e.req.endpoint), e.wrote[k])
           /\ e.req.endpoint = "create" =>
                  LET name == e.req.body.filename.s IN
                  (Contains(name, <<"/">>) \/ Contains(name, <<".", ".">>)) =>
                      (e.resp.status_code \in 400..499 /\ e.wrote = <<>>)
           /\ (e.req.endpoint = "upload" /\ e.resp.status_code = 200) =>
                  IsStoredNameOf(e.resp.data.stored_filename, e.req.body.filename.s)
           /\ (e.req.endpoint = "analyze" /\ e.resp.status_code = 200) =>
                  /\ Len(e.wrote) = 1
                  /\ ~Contains(e.wrote[1][Len(e.wrote[1])], <<"/">>)
                  /\ Len(e.wrote[1][Len(e.wrote[1])])
                         = Len(OrElse(e.req.body.filename, SNIPPET)) + Len(ANALYSIS_JSON)

\* an upload and an analyze whose filename holds a '/' have written a file
C9_Witness ==
    \E i \in 1..Len(log) :
        /\ log[i].req.endpoint \in {"upload", "analyze"}
        /\ Contains(log[i].req.body.filename.s, <<"/">>)
        /\ log[i].resp.status_code = 200
        /\ log[i].wrote # <<>>
        /\ log[i].wrote[1] \in DOMAIN fs

\* --------------------------------------------------------------- SpecWrite
(***************************************************************************)
(* create_file requests that passed validation, each stepping through      *)
(* safe_write_file on a directory they share: open(tmp, "wb"), write +      *)
(* flush + fsync, os.replace(tmp, path).  A file name leads to an inode;   *)
(* an open file keeps its inode whatever the names do.                     *)
(***************************************************************************)
Writers == 1..NumWriters

WriteNames == {<<"c", ".", "c">>, <<".", "c">>}

WriteContents == {<<"a", "a">>, <<"c">>}

OldContent == Utf8(<<"c", "c", "c">>)

\* the files a reader sees: path -> bytes
Files == [path \in DOMAIN dentries |-> inodes[dentries[path]]]

IdleProc ==
    [pc |-> "idle", path |-> <<>>, content |-> <<>>, fd |-> 0, status_code |-> 0,
     before |-> <<>>, ioerror |-> FALSE]

InitWrite ==
    /\ fs = <<>> /\ log = <<>> /\ arg = None /\ ret = None /\ pc = "write"
    /\ procs = [p \in Writers |-> IdleProc]
    /\ \E old \in SUBSET {PathJoin(FILES_DIR, n) : n \in WriteNames} :
           /\ Cardinality(old) <= 1
           /\ dentries = [path \in old |-> 1]
           /\ inodes = [i \in {1 : path \in old} |-> OldContent]

\* create_file up to its call of safe_write_file
StartCreate(p, name, content) ==
    /\ procs[p].pc = "idle"
    /\ validate_filename(name) = "ok"
    /\ procs' = [procs EXCEPT ![p] = [IdleProc EXCEPT !.pc = "open",
                                         !.path = PathJoin(FILES_DIR, name),
                                         !.content = Utf8(content),
                                         !.before = Files]]
    /\ UNCHANGED <<fs, log, arg, ret, dentries, inodes, pc>>

NewInode == Cardinality(DOMAIN inodes) + 1

\* open(tmp, "wb"): the file of that name emptied, or a new empty file
OpenTmp(p) ==
    LET tmp == TmpPath(procs[p].path) IN
    /\ procs[p].pc = "open"
    /\ IF tmp \in DOMAIN dentries
       THEN /\ inodes' = [inodes EXCEPT ![dentries[tmp]] = <<>>]
            /\ dentries' = dentries
            /\ procs' = [procs EXCEPT ![p].pc = "write", ![p].fd = dentries[tmp]]
       ELSE /\ inodes' = (NewInode :> <<>>) @@ inodes
            /\ dentries' = (tmp :> NewInode) @@ dentries
            /\ procs' = [procs EXCEPT ![p].pc = "write", ![p].fd = NewInode]
    /\ UNCHANGED <<fs, log, arg, ret, pc>>

\* bytes written at offset 0 of a file holding `old`
Overlay(bytes, old) ==
    [i \in 1..Max(Len(bytes), Len(old)) |-> IF i <= Len(bytes) THEN bytes[i] ELSE old[i]]

\* f.write(content); f.flush(); os.fsync(f.fileno()); the file is closed
WriteTmp(p) ==
    /\ procs[p].pc = "write"
    /\ inodes' = [inodes EXCEPT ![procs[p].fd] = Overlay(procs[p].content, @)]
    /\ procs' = [procs EXCEPT ![p].pc = "replace"]
    /\ UNCHANGED <<fs, log, arg, ret, dentries, pc>>

\* the write, flush or fsync raises OSError (a full disk) after k bytes; the
\* with block closes the file and create_file answers 500
WriteError(p) ==
    /\ procs[p].pc = "write"
    /\ \E k \in 0..(Len(procs[p].content) - 1) :
           inodes' = [inodes EXCEPT ![procs[p].fd] = Overlay(SubSeq(procs[p].content, 1, k), @)]
    /\ procs' = [procs EXCEPT ![p].pc = "done", ![p].status_code = 500, ![p].ioerror = TRUE]
    /\ UNCHANGED <<fs, log, arg, ret, dentries, pc>>

\* os.replace(tmp, path), path.stat() and create_file's answer: 500 when
\* the temporary name is gone (FileNotFoundError)
ReplaceTmp(p) ==
    LET tmp == TmpPath(procs[p].path) IN
    /\ procs[p].pc = "replace"
    /\ IF tmp \in DOMAIN dentries
       THEN /\ dentries' = [q \in (DOMAIN dentries \ {tmp}) \cup {procs[p].path} |->
                               IF q = procs[p].path THEN dentries[tmp] ELSE dentries[q]]
            /\ procs' = [procs EXCEPT ![p].pc = "done", ![p].status_code = 200]
       ELSE /\ dentries' = dentries
            /\ procs' = [procs EXCEPT ![p].pc = "done", ![p].status_code = 500]
    /\ UNCHANGED <<fs, log, arg, ret, inodes, pc>>

NextWrite ==
    \/ \E p \in Writers, name \in WriteNames, content \in WriteContents :
           StartCreate(p, name, content)
    \/ \E p \in Writers : OpenTmp(p)
    \/ \E p \in Writers : WriteTmp(p)
    \/ \E p \in Writers : WriteError(p)
    \/ \E p \in Writers : ReplaceTmp(p)

SpecWrite == InitWrite /\ [][NextWrite]_vars

Alone(p) == \A q \in Writers \ {p} : procs[q].pc = "idle"

\* C7: a request fully succeeds or fully fails: after a success its target
\* holds exactly its bytes; after an error the stored files, a leftover
\* temporary file included, are what they were before the request.
C7_AllOrNothing ==
    \A p \in Writers :
        (procs[p].pc = "done" /\ Alone(p)) =>
            /\ procs[p].status_code = 200 =>
                   (procs[p].path \in DOMAIN Files /\ Files[procs[p].path] = procs[p].content)
            /\ procs[p].status_code >= 400 => Files = procs[p].before

Started == {p \in Writers : procs[p].pc # "idle"}

IsTarget(path) == \E n \in WriteNames : path = PathJoin(FILES_DIR, n)

\* C8: with requests writing concurrently and no I/O error, a target is
\* absent, its previous content or the complete bytes of one write, and
\* every request's rename succeeds.
C8_NoCorruption ==
    (\A p \in Writers : ~procs[p].ioerror) =>
        /\ \A path \in DOMAIN Files :
               IsTarget(path) =>
                   Files[path] \in {OldContent} \cup {procs[p].content : p \in Started}
        /\ \A p \in Writers : procs[p].pc = "done" => procs[p].status_code = 200

\* ------------------------------------------------------------- SpecAnalyze
\* line shapes on both sides of the long-line threshold
LineShapes ==
    {[len |-> 0, blank |-> TRUE], [len |-> LongLine - 1, blank |-> FALSE],
     [len |-> LongLine, blank |-> FALSE], [len |-> LongLine + 1, blank |-> FALSE]}

NodeShapes ==
    {[kind |-> "FunctionDef", doc |-> TRUE, bare |-> FALSE],
     [kind |-> "FunctionDef", doc |-> FALSE, bare |-> FALSE],
     [kind |-> "AsyncFunctionDef", doc |-> FALSE, bare |-> FALSE],
     [kind |-> "ClassDef", doc |-> FALSE, bare |-> FALSE],
     [kind |-> "If", doc |-> FALSE, bare |-> FALSE],
     [kind |-> "Try", doc |-> FALSE, bare |-> TRUE],     \* try: ... except: ...
     [kind |-> "Try", doc |-> FALSE, bare |-> FALSE]}    \* try: ... except ValueError: ...

\* the trees of a text with these lines: one statement node per code line at
\* most, the first at module level, each nested at most one below the one before
TreesOf(lines) ==
    LET at == CodeLinesOf(lines) IN
    UNION { { [i \in 1..k |-> [kind |-> sh[i].kind, doc |-> sh[i].doc, bare |-> sh[i].bare,
                               depth |-> dp[i], lineno |-> at[i]]] :
                sh \in [1..k -> NodeShapes],
                dp \in { d \in [1..k -> 0..(k - 1)] :
                           /\ k >= 1 => d[1] = 0
                           /\ \A i \in 2..k : d[i] <= d[i - 1] + 1 } }
            : k \in 0..Len(at) }

ParseResults(lines) ==
    {[ok |-> TRUE, nodes |-> t, lineno |-> NoLineno] : t \in TreesOf(lines)}
    \cup {[ok |-> FALSE, nodes |-> <<>>, lineno |-> ln] :
            ln \in IF CodeLinesOf(lines) = <<>> THEN {}
                   ELSE {NoLineno} \cup {<<i>> : i \in 1..Len(lines)}}

InitAnalyze ==
    /\ Idle
    /\ \E ls \in SeqsUpTo(LineShapes, MaxLines) :
           \E p \in ParseResults(ls) : arg = [lines |-> ls, parsed |-> p]
    /\ ret = None
    /\ pc = "call"

CallAnalyze ==
    /\ pc = "call"
    /\ ret' = analyze_python(arg.lines, arg.parsed)
    /\ pc' = "done"
    /\ UNCHANGED <<fs, log, arg, dentries, inodes, procs>>

NextAnalyze == CallAnalyze

SpecAnalyze == InitAnalyze /\ [][NextAnalyze]_vars

IsTopLevelFunction(n) == n.depth = 0 /\ n.kind \in {"FunctionDef", "AsyncFunctionDef"}

IsTopLevelClass(n) == n.depth = 0 /\ n.kind = "ClassDef"

\* C3: for a source that parses, the functions reported are exactly the
\* module-level function definitions and the classes reported exactly the
\* module-level class definitions.
C3_TopLevelDefinitions ==
    (pc = "done" /\ arg.parsed.ok) =>
        /\ ret.metrics.functions = Len(SelectSeq(arg.parsed.nodes, IsTopLevelFunction))
        /\ ret.metrics.classes = Len(SelectSeq(arg.parsed.nodes, IsTopLevelClass))

HasBareExcept(nodes) == \E i \in 1..Len(nodes) : nodes[i].kind = "Try" /\ nodes[i].bare

\* the issues analyze_python knows: a missing docstring, long lines, a syntax error
IsOtherIssue(issue) ==
    issue.message \notin {"missing docstring", "long lines", "SyntaxError"}

FlagsBareExcept(issues) == \E i \in 1..Len(issues) : IsOtherIssue(issues[i])

\* C4: a source with a bare `except:` has an issue flagging it; a source
\* whose handlers are all typed has none.
C4_BareExceptFlagged ==
    (pc = "done" /\ arg.parsed.ok) =>
        (HasBareExcept(arg.parsed.nodes) <=> FlagsBareExcept(ret.issues))

StructuralKeys == {"functions", "classes", "estimated_cyclomatic_complexity"}

\* C5 as stated: a text that does not parse gets exactly one issue, the
\* syntax error with its line number, and no structural summary.
C5_SingleSyntaxIssue ==
    (pc = "done" /\ ~arg.parsed.ok) =>
        /\ Len(ret.issues) = 1
        /\ ret.issues[1].type = "syntax"
        /\ ret.issues[1].lineno = arg.parsed.lineno
        /\ DOMAIN ret.metrics \cap StructuralKeys = {}

\* ------------------------------------------------------------ SpecOptimize
\* the language of the request, resolved: Python, or one with no optimizer
InitOptimize ==
    /\ Idle
    /\ arg \in [code : Texts, language : {PYTHON, <<"c">>}]
    /\ ret = None
    /\ pc = "call"

CallOptimize ==
    /\ pc = "call"
    /\ ret' = Optimized(arg.language, arg.code)
    /\ pc' = "done"
    /\ UNCHANGED <<fs, log, arg, dentries, inodes, procs>>

NextOptimize == CallOptimize

SpecOptimize == InitOptimize /\ [][NextOptimize]_vars

LineCount(text) == Len(SplitLines(text))

\* C6: the optimized code that optimize returns (naive_optimize_python for
\* Python, the input itself for another language) never has more lines than
\* the input code, lines counted as analyze counts them (str.splitlines).
C6_LinesNeverIncrease ==
    pc = "done" => LineCount(ret.optimized_code) <= LineCount(arg.code)

\* an input of several lines whose optimized text has fewer lines
C6_Witness ==
    /\ pc = "done"
    /\ IsPython(arg.language)
    /\ LineCount(arg.code) >= 2
    /\ ret.optimized_code # arg.code
    /\ LineCount(ret.optimized_code) < LineCount(arg.code)

\* C10: the report agrees with the transformation: improvements_made counts
\* the changes, changes is empty exactly when nothing changed, after_size is
\* the optimized length and at most before_size, and reduction_percent is
\* the percentage by which after_size is below before_size, within 0..100.
C10_ReportConsistent ==
    (pc = "done" /\ IsPython(arg.language)) =>
        LET r == ret.report IN
        /\ r.improvements_made = Len(r.changes)
        /\ (r.changes = <<>>) <=> (ret.optimized_code = arg.code)
        /\ r.after_size = Len(ret.optimized_code)
        /\ r.after_size <= r.before_size
        /\ r.reduction_percent \in 0..100
        /\ r.before_size # 0 =>
               \* equal up to the rounding to two decimals
               LET d == r.reduction_percent * r.before_size
                            - 100 * (r.before_size - r.after_size)
               IN  200 * d <= r.before_size /\ -200 * d <= r.before_size
        /\ r.before_size = 0 => r.reduction_percent = 0

====
